---------------------------- MODULE Spec2Model ----------------------------
(***************************************************************************)
(* A model of exhume_exfat, a read-only reader of exFAT volumes:           *)
(* the boot sector decoder (bpb.rs), the FAT walker (fat.rs), the           *)
(* directory entry codec (direntry.rs) and the filesystem handle (fs.rs).  *)
(*                                                                         *)
(* Numbers of the program wider than TLC's integers (u32, u64) are kept    *)
(* as little-endian byte sequences, the form they have on disk:            *)
(* <<240, 255, 255, 255>> is 0xFFFFFFF0.  The arithmetic on them carries   *)
(* byte by byte, and wraps where the program's fixed-width types wrap.     *)
(***************************************************************************)
EXTENDS Integers, Sequences, FiniteSets, TLC

VARIABLES
    fat,          \* the FAT region of the image: cluster number -> 4 bytes
    wk,           \* the locals of one call of Fat::walk_chain
    bs,           \* the bytes handed to BootSector::from_bytes or ExFatFS::new
    boot,         \* the last decoding of bs: the operation and its result
    geo,          \* the last cluster_to_byte_offset computed on the result
    disk,         \* the cluster heap of the image: cluster number -> its bytes
    bad,          \* the clusters whose read fails at present
    bpb,          \* ExFatFS::bpb
    index_built,  \* ExFatFS::index_built
    inode_to_record, \* ExFatFS::inode_to_record
    stack,        \* the stack of ensure_index while its loop runs
    pc,           \* where the handle is: idle, or inside ensure_index
    last,         \* the operation last completed on the handle, the clusters
                  \* that failed to read during it, and its result; none
                  \* while a call is inside ensure_index
    visits,       \* per directory, how often the running ensure_index read it
    hasher        \* the RandomState of inode_to_record, which fixes the order
                  \* in which the map is iterated

walkVars == <<fat, wk>>

bpbVars == <<bs, boot, geo>>

imageVars == <<disk, bad, bpb>>

handleVars == <<index_built, inode_to_record, stack, pc, last, visits>>

fsVars == <<disk, bad, bpb, index_built, inode_to_record, stack, pc, last, visits,
            hasher>>

vars == <<fat, wk, bs, boot, geo, disk, bad, bpb, index_built, inode_to_record,
          stack, pc, last, visits, hasher>>

None == [op |-> "none"]

\* no handle: the state of the filesystem variables where none is modelled
NoHandle ==
    /\ disk = <<>> /\ bad = {} /\ bpb = None
    /\ index_built = FALSE /\ inode_to_record = <<>>
    /\ stack = <<>> /\ pc = None /\ last = None /\ visits = <<>>
    /\ hasher = None

---------------------------------------------------------------------------
(* Little-endian numerals.                                                 *)

Byte == 0..255

Max2(a, b) == IF a >= b THEN a ELSE b

Min2(a, b) == IF a <= b THEN a ELSE b

\* n (0 <= n < 2^31) as w little-endian bytes, w <= 4: {integer}::to_le_bytes
LE(n, w) == [k \in 1..w |-> (n \div (256 ^ (k - 1))) % 256]

\* zero extension to w bytes: the program's `as u64` on a u32
Ext(a, w) == IF Len(a) >= w THEN a ELSE a \o [k \in 1..(w - Len(a)) |-> 0]

\* the low w bytes: what a w-byte type keeps of a wider result
Wrap(a, w) == SubSeq(Ext(a, w), 1, w)

U32(n) == LE(n, 4)

U64(n) == Ext(LE(n, 4), 8)

RECURSIVE CmpFrom(_, _, _)
\* compares two numerals of one width from byte i down: -1, 0 or 1
CmpFrom(a, b, i) ==
    IF i = 0 THEN 0
    ELSE IF a[i] < b[i] THEN -1
    ELSE IF a[i] > b[i] THEN 1
    ELSE CmpFrom(a, b, i - 1)

Cmp(a, b) ==
    LET w == Max2(Len(a), Len(b))
    IN  CmpFrom(Ext(a, w), Ext(b, w), w)

Lt(a, b) == Cmp(a, b) = -1

Le(a, b) == Cmp(a, b) # 1

Ge(a, b) == Cmp(a, b) # -1

Gt(a, b) == Cmp(a, b) = 1

IsZero(a) == \A k \in 1..Len(a) : a[k] = 0

RECURSIVE AddFrom(_, _, _, _)
\* bytes i.. of a + b + carry, for numerals of one width, the carry out last
AddFrom(a, b, i, carry) ==
    IF i > Len(a) THEN <<carry>>
    ELSE LET s == a[i] + b[i] + carry
         IN  <<s % 256>> \o AddFrom(a, b, i + 1, s \div 256)

\* the exact sum, one byte wider than the wider operand
Add(a, b) ==
    LET w == Max2(Len(a), Len(b))
    IN  AddFrom(Ext(a, w), Ext(b, w), 1, 0)

RECURSIVE SubFrom(_, _, _, _)
SubFrom(a, b, i, borrow) ==
    IF i > Len(a) THEN <<>>
    ELSE LET d == a[i] - b[i] - borrow
         IN  <<d % 256>> \o SubFrom(a, b, i + 1, IF d < 0 THEN 1 ELSE 0)

\* a - b modulo 256^Len(a): the wrapping difference of the type of a
SubWrap(a, b) == SubFrom(a, Ext(b, Len(a)), 1, 0)

RECURSIVE MulSmallFrom(_, _, _, _)
MulSmallFrom(a, m, i, carry) ==
    IF i > Len(a) THEN <<carry % 256, carry \div 256>>
    ELSE LET p == a[i] * m + carry
         IN  <<p % 256>> \o MulSmallFrom(a, m, i + 1, p \div 256)

\* the exact product a * 2^s, extended by the bytes the shift needs
Shl(a, s) ==
    [k \in 1..(s \div 8) |-> 0] \o MulSmallFrom(a, 2 ^ (s % 8), 1, 0)

RECURSIVE DivFrom(_, _, _, _)
\* long division by a small m, from byte i down with the running remainder
DivFrom(a, m, i, rem) ==
    IF i = 0 THEN <<>>
    ELSE LET cur == rem * 256 + a[i]
         IN  DivFrom(a, m, i - 1, cur % m) \o <<cur \div m>>

\* a / m for 0 < m < 2^16, in the width of a
DivSmall(a, m) == DivFrom(a, m, Len(a), 0)

RECURSIVE BitOr(_, _, _)
\* x | y on n bits
BitOr(x, y, n) ==
    IF n = 0 THEN 0
    ELSE (IF x % 2 = 1 \/ y % 2 = 1 THEN 1 ELSE 0) + 2 * BitOr(x \div 2, y \div 2, n - 1)

Or64(a, b) == [k \in 1..8 |-> BitOr(a[k], b[k], 8)]

\* the value of a numeral that fits TLC's integers (below 2^24 here)
RECURSIVE ValFrom(_, _)
ValFrom(a, i) == IF i > Len(a) THEN 0 ELSE a[i] + 256 * ValFrom(a, i + 1)

Small(a) == \A k \in 4..Len(a) : a[k] = 0

Val(a) == ValFrom(SubSeq(Ext(a, 3), 1, 3), 1)

---------------------------------------------------------------------------
(* fat.rs: the FAT walker.                                                 *)

ClusterLimit == <<240, 255, 255, 255>>    \* 0xFFFFFFF0

EocMin == <<248, 255, 255, 255>>          \* 0xFFFFFFF8

is_eoc(v) == Ge(v, EocMin)

Ok(v) == [ok |-> TRUE, val |-> v]

Err(k, m) == [ok |-> FALSE, kind |-> k, msg |-> m]

\* the `?` of the source: the error returns at once, the value goes on
Try(r, F(_)) == IF ~r.ok THEN r ELSE F(r.val)

\* Fat::read_entry: the four bytes at fat_start_byte + 4 * cluster, or the
\* error of a read that runs past the end of the byte source.
read_entry(f, cluster) ==
    IF cluster \in DOMAIN f THEN Ok(f[cluster]) ELSE Err("Io", "read_entry")

\* the locals of walk_chain after lines 33-36
WalkStart(first_cluster, max) ==
    [first |-> first_cluster, max |-> max, out |-> <<>>, cur |-> first_cluster,
     steps |-> 0, seen |-> {}, pc |-> "entry", err |-> FALSE]

\* lines 38-41: an invalid start cluster returns the empty sequence
WalkEntry(w) ==
    IF Lt(w.cur, U32(2)) THEN [w EXCEPT !.pc = "done"] ELSE [w EXCEPT !.pc = "loop"]

WalkIterNoSeen(f, w) ==
    IF ~(Ge(w.cur, U32(2)) /\ Lt(w.cur, ClusterLimit) /\ w.steps < w.max)
    THEN [w EXCEPT !.pc = "done"]
    ELSE LET r == read_entry(f, w.cur)
             w1 == [w EXCEPT !.seen = @ \cup {w.cur}, !.out = Append(@, w.cur)]
         IN  IF ~r.ok THEN [w1 EXCEPT !.pc = "done", !.err = TRUE]
             ELSE IF is_eoc(r.val) \/ IsZero(r.val) \/ r.val = w.cur
                  THEN [w1 EXCEPT !.pc = "done"]
                  ELSE [w1 EXCEPT !.cur = r.val, !.steps = @ + 1]

\* the loop that runs while steps <= max
WalkIterOneMore(f, w) ==
    IF ~(Ge(w.cur, U32(2)) /\ Lt(w.cur, ClusterLimit) /\ w.steps <= w.max)
    THEN [w EXCEPT !.pc = "done"]
    ELSE IF w.cur \in w.seen THEN [w EXCEPT !.pc = "done"]
    ELSE LET r == read_entry(f, w.cur)
             w1 == [w EXCEPT !.seen = @ \cup {w.cur}, !.out = Append(@, w.cur)]
         IN  IF ~r.ok THEN [w1 EXCEPT !.pc = "done", !.err = TRUE]
             ELSE IF is_eoc(r.val) \/ IsZero(r.val) \/ r.val = w.cur
                  THEN [w1 EXCEPT !.pc = "done"]
                  ELSE [w1 EXCEPT !.cur = r.val, !.steps = @ + 1]

\* lines 43-64: the loop condition and one pass through the loop body
WalkIter(f, w) ==
    IF ~(Ge(w.cur, U32(2)) /\ Lt(w.cur, ClusterLimit) /\ w.steps < w.max)
    THEN [w EXCEPT !.pc = "done"]
    ELSE IF w.cur \in w.seen THEN [w EXCEPT !.pc = "done"]
    ELSE LET r == read_entry(f, w.cur)
             w1 == [w EXCEPT !.seen = @ \cup {w.cur}, !.out = Append(@, w.cur)]
         IN  IF ~r.ok THEN [w1 EXCEPT !.pc = "done", !.err = TRUE]
             ELSE IF is_eoc(r.val) \/ IsZero(r.val) \/ r.val = w.cur
                  THEN [w1 EXCEPT !.pc = "done"]
                  ELSE [w1 EXCEPT !.cur = r.val, !.steps = @ + 1]

RECURSIVE WalkRun(_, _)
WalkRun(f, w) ==
    IF w.pc = "done" THEN w
    ELSE IF w.pc = "entry" THEN WalkRun(f, WalkEntry(w))
    ELSE WalkRun(f, WalkIter(f, w))

\* what walk_chain returns: Ok(out), or the error `?` propagates (line 49)
WalkResult(w) == IF w.err THEN Err("Io", "read_entry") ELSE Ok(w.out)

walk_chain(f, first_cluster, max) == WalkResult(WalkRun(f, WalkStart(first_cluster, max)))

---------------------------------------------------------------------------
(* bpb.rs: the boot sector decoder.                                        *)

\* b[o .. o + n), with the 0-based offsets of the source
Slice(b, o, n) == SubSeq(b, o + 1, o + n)

\* read_u16, read_u32, read_u64: from_le_bytes of a slice is the numeral
\* the slice already is
read_u16(b, o) == Slice(b, o, 2)

read_u32(b, o) == Slice(b, o, 4)

read_u64(b, o) == Slice(b, o, 8)

BootSignature == <<85, 170>>                    \* 0xAA55

ExfatOem == <<69, 88, 70, 65, 84, 32, 32, 32>>  \* b"EXFAT   "

\* lines 51-52 and 60-76: the fields at their offsets
Decode(b) ==
    [oem_name |-> Slice(b, 3, 8),
     partition_offset |-> read_u64(b, 64),
     volume_length |-> read_u64(b, 72),
     fat_offset |-> read_u32(b, 80),
     fat_length |-> read_u32(b, 84),
     cluster_heap_offset |-> read_u32(b, 88),
     cluster_count |-> read_u32(b, 92),
     root_dir_first_cluster |-> read_u32(b, 96),
     volume_serial |-> read_u32(b, 100),
     fs_revision |-> read_u16(b, 104),
     volume_flags |-> read_u16(b, 106),
     bytes_per_sector_shift |-> b[108 + 1],
     sectors_per_cluster_shift |-> b[109 + 1],
     num_fats |-> b[110 + 1],
     drive_select |-> b[111 + 1]]

bytes_per_sector(me) == Wrap(Shl(U64(1), me.bytes_per_sector_shift), 8)

sectors_per_cluster(me) == Wrap(Shl(U64(1), me.sectors_per_cluster_shift), 8)

\* bytes_per_sector() * sectors_per_cluster(): the factor is a power of two
bytes_per_cluster(me) ==
    Wrap(Shl(bytes_per_sector(me), me.sectors_per_cluster_shift), 8)

fat_start_byte(me) == Wrap(Shl(Ext(me.fat_offset, 8), me.bytes_per_sector_shift), 8)

cluster_to_byte_offset32(me, clus) ==
    LET back == SubWrap(clus, U32(2))
        span == Wrap(Shl(back, me.sectors_per_cluster_shift), 4)
        data_sector == Wrap(Add(Ext(me.cluster_heap_offset, 8), Ext(span, 8)), 8)
    IN  Wrap(Shl(data_sector, me.bytes_per_sector_shift), 8)

\* lines 188-193, every operation in u64
cluster_to_byte_offset(me, clus) ==
    LET back == SubWrap(Ext(clus, 8), U64(2))
        span == Wrap(Shl(back, me.sectors_per_cluster_shift), 8)
        data_sector == Wrap(Add(Ext(me.cluster_heap_offset, 8), span), 8)
    IN  Wrap(Shl(data_sector, me.bytes_per_sector_shift), 8)

FatOverlapsHeapGe(me) ==
    Ge(Wrap(Add(Ext(me.fat_offset, 8), Ext(me.fat_length, 8)), 8),
       Ext(me.cluster_heap_offset, 8))

\* lines 138-139
FatOverlapsHeap(me) ==
    Gt(Wrap(Add(Ext(me.fat_offset, 8), Ext(me.fat_length, 8)), 8),
       Ext(me.cluster_heap_offset, 8))

\* lines 146-150
RootOutOfRange(me) ==
    LET first_data_cluster == U64(2)
        last_cluster ==
            SubWrap(Wrap(Add(Ext(me.cluster_count, 8), first_data_cluster), 8), U64(1))
    IN  \/ Lt(Ext(me.root_dir_first_cluster, 8), first_data_cluster)
        \/ Gt(Ext(me.root_dir_first_cluster, 8), last_cluster)

\* lines 118-159
GeometryChecks(me) ==
    IF me.bytes_per_sector_shift \notin 9..12
    THEN Err("Parse", "bytes_per_sector_shift not in [9..12]")
    ELSE IF me.sectors_per_cluster_shift > 25
    THEN Err("Parse", "sectors_per_cluster_shift too large")
    ELSE IF \/ Lt(bytes_per_cluster(me), U64(4096))
            \/ Gt(bytes_per_cluster(me), U64(32 * 1024 * 1024))
    THEN Err("Parse", "bytes_per_cluster outside [4KiB..32MiB]")
    ELSE IF FatOverlapsHeap(me)
    THEN Err("Parse", "FAT overlaps cluster heap")
    ELSE IF RootOutOfRange(me)
    THEN Err("Parse", "root_dir_first_cluster out of range")
    ELSE Ok(me)

\* lines 96-116
LayoutChecks(me) ==
    IF IsZero(me.volume_length)
    THEN Err("Parse", "volume_length is zero")
    ELSE IF IsZero(me.fat_offset) \/ IsZero(me.fat_length)
    THEN Err("Parse", "Invalid FAT location/length")
    ELSE IF IsZero(me.cluster_heap_offset) \/ Lt(me.cluster_count, U32(2))
    THEN Err("Parse", "Invalid cluster heap")
    ELSE IF Lt(me.root_dir_first_cluster, U32(2))
    THEN Err("Parse", "Invalid root_dir_first_cluster (<2)")
    ELSE GeometryChecks(me)

IdentityChecksRevisionFirst(me) ==
    IF me.fs_revision # LE(256, 2)
    THEN Err("Parse", "Unexpected exFAT fs_revision")
    ELSE IF me.oem_name # ExfatOem
    THEN Err("Parse", "OEM name isn't EXFAT")
    ELSE IF me.num_fats # 1
    THEN Err("Parse", "num_fats (exFAT requires 1)")
    ELSE LayoutChecks(me)

\* lines 78-94
IdentityChecks(me) ==
    IF me.oem_name # ExfatOem
    THEN Err("Parse", "OEM name isn't EXFAT")
    ELSE IF me.fs_revision # LE(256, 2)
    THEN Err("Parse", "Unexpected exFAT fs_revision")
    ELSE IF me.num_fats # 1
    THEN Err("Parse", "num_fats (exFAT requires 1)")
    ELSE LayoutChecks(me)

\* BootSector::from_bytes, lines 26-160
from_bytes(b) ==
    IF Len(b) < 512
    THEN Err("Parse", "Boot sector too short")
    ELSE IF read_u16(b, 510) # BootSignature
    THEN Err("Parse", "Invalid boot signature (0x55AA missing)")
    ELSE IdentityChecks(Decode(b))

\* ExFatFS::new, fs.rs lines 33-44: read_exact of 512 bytes at offset 0,
\* then from_bytes, its error mapped to FsError::Parse
new(io) ==
    IF Len(io) < 512 THEN Err("Io", "read_exact")
    ELSE LET r == from_bytes(SubSeq(io, 1, 512))
         IN  IF r.ok
             THEN Ok([bpb |-> r.val, index_built |-> FALSE, inode_to_record |-> <<>>])
             ELSE r

---------------------------------------------------------------------------
(* direntry.rs: the directory entry codec.                                 *)

Some(v) == [some |-> TRUE, val |-> v]

Nothing == [some |-> FALSE]

\* impl From<u8> for EntryType
EntryType(v) ==
    CASE v = 0 -> "End"
      [] v = 129 -> "AllocationBitmap"
      [] v = 130 -> "UpCaseTable"
      [] v = 131 -> "VolumeLabel"
      [] v = 133 -> "File"
      [] v = 192 -> "StreamExt"
      [] v = 193 -> "FileName"
      [] OTHER -> "Unknown"

RawDirEnt_from_bytes(b) == [entry_type |-> b[1], raw |-> SubSeq(b, 1, 32)]

kind(e) == EntryType(e.entry_type)

FileDirectoryEntry_parse(e) ==
    [secondary_count |-> e.raw[1 + 1],
     set_checksum |-> Slice(e.raw, 2, 2),
     attributes |-> Slice(e.raw, 4, 2),
     create_time |-> Slice(e.raw, 8, 4),
     last_mod_time |-> Slice(e.raw, 12, 4),
     last_access_time |-> Slice(e.raw, 16, 4)]

StreamExtensionEntry_parse(e) ==
    [general_flags |-> e.raw[1 + 1],
     first_cluster |-> Slice(e.raw, 20, 4),
     data_length |-> Slice(e.raw, 24, 8)]

\* take_while(|&c| c != 0)
TakeWhileNonZero(u) ==
    LET zeros == {k \in 1..Len(u) : u[k] = 0}
    IN  IF zeros = {} THEN u
        ELSE SubSeq(u, 1, (CHOOSE k \in zeros : \A j \in zeros : k <= j) - 1)

RECURSIVE from_utf16_lossy(_)
\* String::from_utf16_lossy, a string being the sequence of its scalar
\* values: a surrogate pair is one scalar, a lone surrogate is U+FFFD
from_utf16_lossy(u) ==
    IF u = <<>> THEN <<>>
    ELSE IF u[1] \notin 55296..57343 THEN <<u[1]>> \o from_utf16_lossy(Tail(u))
    ELSE IF u[1] <= 56319 /\ Len(u) >= 2 /\ u[2] \in 56320..57343
    THEN <<65536 + (u[1] - 55296) * 1024 + (u[2] - 56320)>>
             \o from_utf16_lossy(Tail(Tail(u)))
    ELSE <<65533>> \o from_utf16_lossy(Tail(u))

FileNameEntry_parse(e) ==
    LET u16s == [i \in 1..15 |->
                    e.raw[2 + (i - 1) * 2 + 1] + 256 * e.raw[3 + (i - 1) * 2 + 1]]
    IN  [name_fragment |-> from_utf16_lossy(TakeWhileNonZero(u16s))]

\* FileRecord::is_dir: attributes & 0x0010
is_dir(fr) == (fr.attributes[1] \div 16) % 2 = 1

RECURSIVE AssembleFrom(_, _, _)
\* lines 203-216: the loop over the set, from its element i
AssembleFrom(set, i, acc) ==
    IF i > Len(set) THEN acc
    ELSE LET e == set[i]
         IN  AssembleFrom(set, i + 1,
                 CASE kind(e) = "File" ->
                        [acc EXCEPT !.fde = Some(FileDirectoryEntry_parse(e))]
                   [] kind(e) = "StreamExt" ->
                        [acc EXCEPT !.stream = Some(StreamExtensionEntry_parse(e))]
                   [] kind(e) = "FileName" ->
                        [acc EXCEPT !.name = @ \o FileNameEntry_parse(e).name_fragment]
                   [] OTHER -> acc)

assemble_file(set) ==
    IF set = <<>> THEN Nothing
    ELSE LET a == AssembleFrom(set, 1, [fde |-> Nothing, stream |-> Nothing, name |-> <<>>])
         IN  IF a.fde.some /\ a.stream.some
             THEN Some([name |-> a.name,
                        attributes |-> a.fde.val.attributes,
                        first_cluster |-> a.stream.val.first_cluster,
                        size |-> a.stream.val.data_length])
             ELSE Nothing

---------------------------------------------------------------------------
(* fs.rs: the filesystem handle.                                           *)

\* read_cluster: bytes_per_cluster bytes at cluster_to_offset(cluster), or
\* the error of the seek or of read_exact
read_cluster(cluster) ==
    IF cluster \in DOMAIN disk /\ cluster \notin bad
    THEN Ok(disk[cluster])
    ELSE Err("Io", "read_cluster")

\* buf.chunks(32), up to the first chunk shorter than 32 bytes
Chunks(buf) ==
    [k \in 1..(Len(buf) \div 32) |->
        RawDirEnt_from_bytes(SubSeq(buf, 32 * (k - 1) + 1, 32 * k))]

RECURSIVE ReadChainPartial(_, _, _)
\* the loop that ends at a cluster it cannot read and keeps what it has
ReadChainPartial(chain, j, out) ==
    IF j > Len(chain) \/ ~read_cluster(chain[j]).ok THEN Ok(out)
    ELSE ReadChainPartial(chain, j + 1, out \o Chunks(read_cluster(chain[j]).val))

RECURSIVE ReadChain(_, _, _)
\* lines 63-71: the loop over the chain, from its element j
ReadChain(chain, j, out) ==
    IF j > Len(chain) THEN Ok(out)
    ELSE Try(read_cluster(chain[j]),
             LAMBDA buf : ReadChain(chain, j + 1, out \o Chunks(buf)))

read_dir_entries_from_chain(first_cluster) ==
    Try(walk_chain(fat, first_cluster, 1000000),
        LAMBDA chain : ReadChain(chain, 1, <<>>))

\* line 96: ((first_cluster as u64) << 32) | (i as u64)
ListIno(first_cluster, i) ==
    Or64(Wrap(Shl(Ext(first_cluster, 8), 32), 8), U64(i))

RECURSIVE ListInoScan(_, _, _, _)
\* lines 89-106; i counts records from 0 as in the source
ListInoScan(first_cluster, ents, i, out) ==
    IF i >= Len(ents) THEN out
    ELSE IF kind(ents[i + 1]) = "End" THEN out
    ELSE IF kind(ents[i + 1]) = "File"
    THEN LET sec_cnt == ents[i + 1].raw[1 + 1]
             end == Min2(i + 1 + sec_cnt, Len(ents))
             fr == assemble_file(SubSeq(ents, i + 1, end))
         IN  ListInoScan(first_cluster, ents, end,
                 IF fr.some THEN Append(out, <<ListIno(first_cluster, i), fr.val>>)
                 ELSE out)
    ELSE ListInoScan(first_cluster, ents, i + 1, out)

list_dir_with_inodes(first_cluster) ==
    Try(read_dir_entries_from_chain(first_cluster),
        LAMBDA ents : Ok(ListInoScan(first_cluster, ents, 0, <<>>)))

RECURSIVE ListScanRescan(_, _, _)
\* the scan that resumes at the record after a primary
ListScanRescan(ents, i, out) ==
    IF i >= Len(ents) THEN out
    ELSE IF kind(ents[i + 1]) = "End" THEN out
    ELSE IF kind(ents[i + 1]) = "File"
    THEN LET sec_cnt == ents[i + 1].raw[1 + 1]
             end == Min2(i + 1 + sec_cnt, Len(ents))
             fr == assemble_file(SubSeq(ents, i + 1, end))
         IN  ListScanRescan(ents, i + 1, IF fr.some THEN Append(out, fr.val) ELSE out)
    ELSE ListScanRescan(ents, i + 1, out)

RECURSIVE ListScan(_, _, _)
\* lines 119-136
ListScan(ents, i, out) ==
    IF i >= Len(ents) THEN out
    ELSE IF kind(ents[i + 1]) = "End" THEN out
    ELSE IF kind(ents[i + 1]) = "File"
    THEN LET sec_cnt == ents[i + 1].raw[1 + 1]
             end == Min2(i + 1 + sec_cnt, Len(ents))
             fr == assemble_file(SubSeq(ents, i + 1, end))
         IN  ListScan(ents, end, IF fr.some THEN Append(out, fr.val) ELSE out)
    ELSE ListScan(ents, i + 1, out)

list_dir(first_cluster) ==
    Try(read_dir_entries_from_chain(first_cluster),
        LAMBDA ents : Ok(ListScan(ents, 0, <<>>)))

IndexInoShift16(dir_clus, i) ==
    Or64(Wrap(Shl(Ext(dir_clus, 8), 16), 8), U64(i))

\* line 157: ((dir_clus as u64) << 32) | (i as u64)
IndexIno(dir_clus, i) ==
    Or64(Wrap(Shl(Ext(dir_clus, 8), 32), 8), U64(i))

\* the insert without the push
IndexRecordNoPush(dir_clus, i, fr, acc) ==
    [map |-> (IndexIno(dir_clus, i) :> <<dir_clus, i, fr>>) @@ acc.map,
     stack |-> acc.stack]

\* lines 158-161: the insert into the map and the push of a directory
IndexRecord(dir_clus, i, fr, acc) ==
    [map |-> (IndexIno(dir_clus, i) :> <<dir_clus, i, fr>>) @@ acc.map,
     stack |-> IF is_dir(fr) /\ Ge(fr.first_cluster, U32(2))
               THEN Append(acc.stack, fr.first_cluster)
               ELSE acc.stack]

RECURSIVE IndexScan(_, _, _, _)
\* lines 149-170: the scan of one directory; acc is the map and the stack
IndexScan(dir_clus, ents, i, acc) ==
    IF i >= Len(ents) THEN acc
    ELSE IF kind(ents[i + 1]) = "End" THEN acc
    ELSE IF kind(ents[i + 1]) = "File"
    THEN LET sec_cnt == ents[i + 1].raw[1 + 1]
             end == Min2(i + 1 + sec_cnt, Len(ents))
             fr == assemble_file(SubSeq(ents, i + 1, end))
         IN  IndexScan(dir_clus, ents, end,
                 IF fr.some THEN IndexRecord(dir_clus, i, fr.val, acc) ELSE acc)
    ELSE IndexScan(dir_clus, ents, i + 1, acc)

\* a quotient as the usize the walker counts in: a count of 2^24 or more
\* stands for 2^24, more clusters than any chain of the model holds
AsCount(q) == IF Small(q) THEN Val(q) ELSE 16777216

\* line 178: (fr.size / bytes_per_cluster) as usize + 4
cluster_guess(fr) == AsCount(DivSmall(fr.size, Val(bytes_per_cluster(bpb)))) + 4

NoTruncate(out, size) == out

\* line 188: out.truncate(fr.size as usize)
Truncate(out, size) ==
    IF Lt(size, U64(Len(out))) THEN SubSeq(out, 1, Val(size)) ELSE out

RECURSIVE ReadFileLoopStrict(_, _, _, _)
\* the loop that fails when the chain ends before fr.size bytes are read
ReadFileLoopStrict(chain, j, out, size) ==
    IF j > Len(chain)
    THEN IF Lt(U64(Len(out)), size) THEN Err("Io", "unexpected end of chain") ELSE Ok(out)
    ELSE Try(read_cluster(chain[j]),
             LAMBDA buf : IF Ge(U64(Len(out) + Len(buf)), size)
                          THEN Ok(out \o buf)
                          ELSE ReadFileLoopStrict(chain, j + 1, out \o buf, size))

RECURSIVE ReadFileLoop(_, _, _, _)
\* lines 181-187: the loop over the chain, from its element j
ReadFileLoop(chain, j, out, size) ==
    IF j > Len(chain) THEN Ok(out)
    ELSE Try(read_cluster(chain[j]),
             LAMBDA buf : IF Ge(U64(Len(out) + Len(buf)), size)
                          THEN Ok(out \o buf)
                          ELSE ReadFileLoop(chain, j + 1, out \o buf, size))

\* Vec::with_capacity panics when the capacity exceeds isize::MAX bytes
CapacityOverflow(size) == size[8] >= 128

read_file(fr) ==
    Try(walk_chain(fat, fr.first_cluster, cluster_guess(fr)),
        LAMBDA chain :
            IF CapacityOverflow(fr.size) THEN Err("Panic", "capacity overflow")
            ELSE Try(ReadFileLoop(chain, 1, <<>>, fr.size),
                     LAMBDA out : Ok(Truncate(out, fr.size))))

to_ascii_lowercase(c) == IF c \in 65..90 THEN c + 32 ELSE c

to_ascii_uppercase(c) == IF c \in 97..122 THEN c - 32 ELSE c

eq_exact(a, b) == a = b

\* str::eq_ignore_ascii_case on strings kept as sequences of scalar values
eq_ignore_ascii_case(a, b) ==
    /\ Len(a) = Len(b)
    /\ \A k \in 1..Len(a) : to_ascii_lowercase(a[k]) = to_ascii_lowercase(b[k])

RECURSIVE SplitFrom(_, _, _, _)
\* str::split('/'): the pieces between the '/' (47) of path, empty ones too
SplitFrom(path, i, cur, out) ==
    IF i > Len(path) THEN Append(out, cur)
    ELSE IF path[i] = 47 THEN SplitFrom(path, i + 1, <<>>, Append(out, cur))
    ELSE SplitFrom(path, i + 1, Append(cur, path[i]), out)

\* line 193: path.split('/').filter(|p| !p.is_empty()).collect()
Parts(path) == SelectSeq(SplitFrom(path, 1, <<>>, <<>>), LAMBDA part : part # <<>>)

LastMatch(entries, comp) ==
    LET hits == {k \in 1..Len(entries) : eq_ignore_ascii_case(entries[k].name, comp)}
    IN  IF hits = {} THEN Nothing
        ELSE Some(entries[CHOOSE k \in hits : \A j \in hits : k >= j])

\* lines 201-207: the first entry whose name matches comp
FirstMatch(entries, comp) ==
    LET hits == {k \in 1..Len(entries) : eq_ignore_ascii_case(entries[k].name, comp)}
    IN  IF hits = {} THEN Nothing
        ELSE Some(entries[CHOOSE k \in hits : \A j \in hits : k <= j])

\* lines 208-218: what the loop does with the match of component idx
Descend(parts, idx, next, Continue(_)) ==
    IF next.some
    THEN IF idx = Len(parts) - 1
         THEN IF is_dir(next.val) THEN Err("NotAFile", next.val.name)
              ELSE read_file(next.val)
         ELSE Continue(next.val.first_cluster)
    ELSE Err("NotFound", parts[idx + 1])

RECURSIVE PathLoop(_, _, _, _)
\* lines 199-219: the loop over the components, from component idx (from 0)
PathLoop(path, parts, idx, cur_dir) ==
    IF idx >= Len(parts) THEN Err("NotFound", path)
    ELSE Try(list_dir(cur_dir),
             LAMBDA entries :
                 Descend(parts, idx, FirstMatch(entries, parts[idx + 1]),
                         LAMBDA dir : PathLoop(path, parts, idx + 1, dir)))

\* lines 193-198, then the loop
read_path(path) ==
    IF Parts(path) = <<>> THEN Err("NotAFile", <<47>>)
    ELSE PathLoop(path, Parts(path), 0, bpb.root_dir_first_cluster)

\* ExInode::from_record
from_record(i_num, fr) ==
    [i_num |-> i_num, attributes |-> fr.attributes,
     first_cluster |-> fr.first_cluster, size |-> fr.size, name |-> fr.name]

\* get_inode once ensure_index has returned Ok (lines 230-235)
get_inode_indexed(map, inode_num) ==
    IF inode_num \in DOMAIN map
    THEN Ok(from_record(inode_num, map[inode_num][3]))
    ELSE Err("NotFound", <<"inode", inode_num>>)

RECURSIVE IterFrom(_, _)
\* the keys in the order the hasher h lays them out
IterFrom(keys, h) ==
    IF keys = {} THEN <<>>
    ELSE LET k == CHOOSE k \in keys :
                     \A j \in keys : IF h = "ascending" THEN Le(k, j) ELSE Ge(k, j)
         IN  <<k>> \o IterFrom(keys \ {k}, h)

\* inode_to_record.iter(): every key once, in the order of the handle's hasher
iter(map) == IterFrom(DOMAIN map, hasher)

\* CompatDirEntry::from_name_inode
from_name_inode(name, inode, isdir) ==
    [inode |-> inode, rec_len |-> 32, file_type |-> IF isdir THEN 2 ELSE 1,
     name |-> name]

RECURSIVE StrLe(_, _)
\* a.cmp(&b) # Greater on strings: the lexicographic order of their bytes,
\* which is the order of their scalar values
StrLe(a, b) ==
    IF a = <<>> THEN TRUE
    ELSE IF b = <<>> THEN FALSE
    ELSE IF a[1] # b[1] THEN a[1] < b[1]
    ELSE StrLe(Tail(a), Tail(b))

\* e placed behind the entries of sorted that are not greater than it
InsertByName(sorted, e) ==
    LET k == Cardinality({i \in 1..Len(sorted) : StrLe(sorted[i].name, e.name)})
    IN  SubSeq(sorted, 1, k) \o <<e>> \o SubSeq(sorted, k + 1, Len(sorted))

RECURSIVE SortFrom(_, _, _)
SortFrom(out, j, sorted) ==
    IF j > Len(out) THEN sorted
    ELSE SortFrom(out, j + 1, InsertByName(sorted, out[j]))

\* line 282: out.sort_by(|a, b| a.name.cmp(&b.name)), a stable sort
sort_by_name(out) == SortFrom(out, 1, <<>>)

RECURSIVE ChildrenFrom(_, _, _, _)
\* lines 277-281: the loop over the map, from element j of its iteration
ChildrenFrom(map, keys, j, first_cluster) ==
    IF j > Len(keys) THEN <<>>
    ELSE (IF map[keys[j]][1] = first_cluster
          THEN <<from_name_inode(map[keys[j]][3].name, keys[j], is_dir(map[keys[j]][3]))>>
          ELSE <<>>) \o ChildrenFrom(map, keys, j + 1, first_cluster)

\* list_dir_inode once ensure_index has returned Ok (lines 273-283, after line 272);
\* ExInode::is_dir tests the same bit as FileRecord::is_dir
list_dir_inode_indexed(map, inode) ==
    IF ~is_dir(inode) THEN Err("NotFound", "not a directory")
    ELSE Ok(sort_by_name(ChildrenFrom(map, iter(map), 1, inode.first_cluster)))

\* read_inode once ensure_index has returned Ok (lines 289-301)
read_inode_indexed(map, inode) ==
    IF inode.i_num \notin DOMAIN map THEN Err("NotFound", <<"inode", inode.i_num>>)
    ELSE IF is_dir(map[inode.i_num][3]) THEN Err("NotAFile", map[inode.i_num][3].name)
    ELSE read_file(map[inode.i_num][3])

\* lines 250-256: the first entry in the iteration of the map whose parent
\* is cur_dir and whose name matches comp
IterMatch(map, keys, cur_dir, comp) ==
    LET hits == {j \in 1..Len(keys) :
                    /\ map[keys[j]][1] = cur_dir
                    /\ eq_ignore_ascii_case(map[keys[j]][3].name, comp)}
    IN  IF hits = {} THEN Nothing
        ELSE Some(keys[CHOOSE j \in hits : \A i \in hits : j <= i])

RECURSIVE ResolveLoop(_, _, _, _, _, _)
\* lines 248-265: the loop over the components, from component pos (from 0);
\* keys is the iteration of the map
ResolveLoop(map, keys, parts, pos, cur_dir, current_inode) ==
    IF pos >= Len(parts) THEN Ok(current_inode)
    ELSE LET found == IterMatch(map, keys, cur_dir, parts[pos + 1])
         IN  IF found.some
             THEN ResolveLoop(map, keys, parts, pos + 1,
                              IF pos < Len(parts) - 1
                              THEN map[found.val][3].first_cluster ELSE cur_dir,
                              found.val)
             ELSE Err("NotFound", parts[pos + 1])

\* lines 240-268 on the map iterated as keys
ResolveOver(map, keys, path) ==
    IF Parts(path) = <<>> THEN Err("NotFound", <<47>>)
    ELSE Try(ResolveLoop(map, keys, Parts(path), 0, bpb.root_dir_first_cluster, Nothing),
             LAMBDA ino : Try(get_inode_indexed(map, ino),
                              LAMBDA inode : Ok(<<ino, inode>>)))

\* resolve_path_to_inode_num once ensure_index has returned Ok
resolve_path_indexed(map, path) == ResolveOver(map, iter(map), path)

---------------------------------------------------------------------------
(* The decoder over boot sectors that differ from a valid one in at most   *)
(* MaxCorrupt fields.                                                      *)

MaxCorrupt == 2

MaxU32 == <<255, 255, 255, 255>>

\* the sector of scenario S2: 512-byte sectors, 8 sectors per cluster
BaseFields ==
    [len |-> 512, sig |-> BootSignature, oem |-> ExfatOem,
     fs_revision |-> <<0, 1>>, num_fats |-> 1,
     partition_offset |-> U64(0), volume_length |-> U64(128),
     fat_offset |-> U32(8), fat_length |-> U32(8),
     cluster_heap_offset |-> U32(16), cluster_count |-> U32(64),
     root |-> U32(4), bps |-> 9, spc |-> 3]

FieldNames == DOMAIN BaseFields

OtherValues ==
    [len |-> {511, 513},
     sig |-> {<<170, 85>>, <<85, 0>>},
     oem |-> {<<77, 83, 68, 79, 83, 53, 46, 48>>,      \* "MSDOS5.0"
              <<101, 120, 102, 97, 116, 32, 32, 32>>}, \* "exfat   "
     fs_revision |-> {<<1, 0>>, <<0, 2>>},
     num_fats |-> {0, 2},
     partition_offset |-> {U64(63)},
     volume_length |-> {U64(0), <<0, 0, 0, 0, 0, 0, 0, 1>>},
     fat_offset |-> {U32(0), U32(9), MaxU32},
     fat_length |-> {U32(0), U32(9), MaxU32},
     cluster_heap_offset |-> {U32(0), U32(15), MaxU32},
     cluster_count |-> {U32(0), U32(1), U32(2), MaxU32},
     root |-> {U32(0), U32(1), U32(2), U32(65), U32(66), MaxU32},
     bps |-> {8, 12, 13},
     spc |-> {0, 2, 13, 16, 17, 25, 26, 255}]

RECURSIVE Corrupted(_)
\* the field values with at most n fields changed
Corrupted(n) ==
    IF n = 0 THEN {BaseFields}
    ELSE LET S == Corrupted(n - 1)
         IN  S \cup UNION {{[r EXCEPT ![k] = v] : v \in OtherValues[k]} :
                             <<r, k>> \in S \X FieldNames}

\* the sector holding the field values at the offsets of the on-disk format
Layout(r) ==
    LET at(o) ==
            IF o \in 3..10 THEN r.oem[o - 2]
            ELSE IF o \in 64..71 THEN r.partition_offset[o - 63]
            ELSE IF o \in 72..79 THEN r.volume_length[o - 71]
            ELSE IF o \in 80..83 THEN r.fat_offset[o - 79]
            ELSE IF o \in 84..87 THEN r.fat_length[o - 83]
            ELSE IF o \in 88..91 THEN r.cluster_heap_offset[o - 87]
            ELSE IF o \in 92..95 THEN r.cluster_count[o - 91]
            ELSE IF o \in 96..99 THEN r.root[o - 95]
            ELSE IF o \in 104..105 THEN r.fs_revision[o - 103]
            ELSE IF o = 108 THEN r.bps
            ELSE IF o = 109 THEN r.spc
            ELSE IF o = 110 THEN r.num_fats
            ELSE IF o \in 510..511 THEN r.sig[o - 509]
            ELSE 0
    IN  [i \in 1..r.len |-> at(i - 1)]

\* the clusters whose offsets are asked for: the first two, the middle of
\* the range, and the last two below 0xFFFFFFF0
GeoClusters ==
    {U32(2), U32(3), <<0, 0, 0, 128>>, <<238, 255, 255, 255>>, <<239, 255, 255, 255>>}

InitBpb ==
    /\ bs \in {Layout(r) : r \in Corrupted(MaxCorrupt)}
    /\ boot = None /\ geo = None
    /\ fat = <<>> /\ wk = None
    /\ NoHandle

FromBytes ==
    /\ boot' = [op |-> "from_bytes", res |-> from_bytes(bs)]
    /\ geo' = None
    /\ UNCHANGED <<bs, walkVars, fsVars>>

Open ==
    /\ boot' = [op |-> "new", res |-> new(bs)]
    /\ geo' = None
    /\ UNCHANGED <<bs, walkVars, fsVars>>

\* the BootSector the last decoding returned
Held == IF boot.op = "new" THEN boot.res.val.bpb ELSE boot.res.val

Geometry ==
    /\ boot.op # "none" /\ boot.res.ok
    /\ \E c \in GeoClusters :
          geo' = [op |-> "cluster_to_byte_offset", clus |-> c,
                  off |-> cluster_to_byte_offset(Held, c),
                  next |-> cluster_to_byte_offset(Held, Wrap(Add(c, U32(1)), 4))]
    /\ UNCHANGED <<bs, boot, walkVars, fsVars>>

NextBpb == FromBytes \/ Open \/ Geometry

SpecBpb == InitBpb /\ [][NextBpb]_vars

NumEq(a, b) == Cmp(a, b) = 0

\* the conditions of the claim on the bytes of a sector, fields read at
\* the offsets of the on-disk format, sums taken exactly
Accepts(b) ==
    /\ Len(b) >= 512
    /\ b[511] = 85 /\ b[512] = 170
    /\ SubSeq(b, 4, 11) = <<69, 88, 70, 65, 84, 32, 32, 32>>
    /\ b[105] = 0 /\ b[106] = 1
    /\ b[111] = 1
    /\ ~IsZero(SubSeq(b, 73, 80))
    /\ ~IsZero(SubSeq(b, 81, 84))
    /\ ~IsZero(SubSeq(b, 85, 88))
    /\ ~IsZero(SubSeq(b, 89, 92))
    /\ Ge(SubSeq(b, 93, 96), <<2>>)
    /\ b[109] \in 9..12
    /\ b[110] <= 25
    /\ b[109] + b[110] \in 12..25
    /\ Le(Add(SubSeq(b, 81, 84), SubSeq(b, 85, 88)), SubSeq(b, 89, 92))
    /\ Le(<<2>>, SubSeq(b, 97, 100))
    /\ Le(SubSeq(b, 97, 100), Add(SubSeq(b, 93, 96), <<1>>))

\* the invariants of the data model on a BootSector value
HeldInvariant(me) ==
    /\ Le(Add(me.fat_offset, me.fat_length), me.cluster_heap_offset)
    /\ Le(<<2>>, me.root_dir_first_cluster)
    /\ Le(me.root_dir_first_cluster, Add(me.cluster_count, <<1>>))
    /\ me.bytes_per_sector_shift \in 9..12
    /\ me.sectors_per_cluster_shift <= 25
    /\ Le(<<0, 16>>, bytes_per_cluster(me))
    /\ Le(bytes_per_cluster(me), <<0, 0, 0, 2>>)

\* C4: from_bytes returns a BootSector exactly when the input satisfies
\* every listed condition, so the BootSector of an open handle satisfies
\* the invariants: FAT end <= heap offset, 2 <= root <= cluster_count + 1,
\* the shifts and the cluster size in range.
C4_FromBytesAcceptsIff ==
    /\ boot.op = "from_bytes" => (boot.res.ok <=> Accepts(bs))
    /\ boot.op = "new" =>
          /\ boot.res.ok <=> (Len(bs) >= 512 /\ Accepts(SubSeq(bs, 1, 512)))
          /\ boot.res.ok => HeldInvariant(boot.res.val.bpb)

\* a handle is open on a sector whose root cluster is the last one,
\* cluster_count + 1
C4_Witness ==
    /\ boot.op = "new" /\ boot.res.ok
    /\ boot.res.val.bpb.root_dir_first_cluster = U32(65)
    /\ boot.res.val.bpb.cluster_count = U32(64)

\* the place of each failure of from_bytes in the order of checks of the
\* specification
StageOf(msg) ==
    CASE msg = "Boot sector too short" -> 1
      [] msg = "Invalid boot signature (0x55AA missing)" -> 2
      [] msg = "OEM name isn't EXFAT" -> 3
      [] msg = "Unexpected exFAT fs_revision" -> 4
      [] msg = "num_fats (exFAT requires 1)" -> 5
      [] msg \in {"volume_length is zero", "Invalid FAT location/length",
                  "Invalid cluster heap", "Invalid root_dir_first_cluster (<2)"} -> 6
      [] msg \in {"bytes_per_sector_shift not in [9..12]",
                  "sectors_per_cluster_shift too large",
                  "bytes_per_cluster outside [4KiB..32MiB]"} -> 7
      [] msg = "FAT overlaps cluster heap" -> 8
      [] msg = "root_dir_first_cluster out of range" -> 9
      [] OTHER -> 0

\* whether the sector violates the check at place s of that order
Violates(b, s) ==
    CASE s = 1 -> Len(b) < 512
      [] Len(b) < 512 -> FALSE
      [] s = 2 -> ~(b[511] = 85 /\ b[512] = 170)
      [] s = 3 -> SubSeq(b, 4, 11) # <<69, 88, 70, 65, 84, 32, 32, 32>>
      [] s = 4 -> ~(b[105] = 0 /\ b[106] = 1)
      [] s = 5 -> b[111] # 1
      [] s = 6 -> \/ IsZero(SubSeq(b, 73, 80)) \/ IsZero(SubSeq(b, 81, 84))
                  \/ IsZero(SubSeq(b, 85, 88)) \/ IsZero(SubSeq(b, 89, 92))
                  \/ Lt(SubSeq(b, 93, 96), <<2>>) \/ Lt(SubSeq(b, 97, 100), <<2>>)
      [] s = 7 -> ~(b[109] \in 9..12 /\ b[110] <= 25 /\ b[109] + b[110] \in 12..25)
      [] s = 8 -> Gt(Add(SubSeq(b, 81, 84), SubSeq(b, 85, 88)), SubSeq(b, 89, 92))
      [] s = 9 -> Gt(SubSeq(b, 97, 100), Add(SubSeq(b, 93, 96), <<1>>))

Stages == 1..9

ReportsFirstViolation(b, res) ==
    IF \A s \in Stages : ~Violates(b, s) THEN res.ok
    ELSE /\ ~res.ok /\ res.kind = "Parse"
         /\ Violates(b, StageOf(res.msg))
         /\ \A s \in Stages : s < StageOf(res.msg) => ~Violates(b, s)

\* C5: the checks are applied in the order length, signature, OEM name,
\* fs_revision, num_fats, non-zero fields, shifts and cluster size,
\* FAT/heap overlap, root upper bound, and the failure reported is the first
\* one violated; a 512-byte sector with a valid signature and another OEM
\* name makes open() fail with Parse "OEM name isn't EXFAT" whatever its
\* other fields hold; open() returns no handle after a failed check.
C5_ChecksInOrder ==
    /\ boot.op = "from_bytes" => ReportsFirstViolation(bs, boot.res)
    /\ boot.op = "new" /\ Len(bs) >= 512 =>
          /\ ReportsFirstViolation(SubSeq(bs, 1, 512), boot.res)
          /\ (bs[511] = 85 /\ bs[512] = 170
                /\ SubSeq(bs, 4, 11) # <<69, 88, 70, 65, 84, 32, 32, 32>>)
             => boot.res = Err("Parse", "OEM name isn't EXFAT")
    /\ boot.op = "new" /\ Len(bs) < 512 => ~boot.res.ok

\* open() has failed on an "MSDOS5.0" sector whose fs_revision is wrong too
C5_Witness ==
    /\ boot.op = "new" /\ ~boot.res.ok /\ Len(bs) = 512
    /\ SubSeq(bs, 4, 11) = <<77, 83, 68, 79, 83, 53, 46, 48>>
    /\ bs[105] = 1
    /\ boot.res.msg = "OEM name isn't EXFAT"

\* C6: on an accepted BootSector cluster_to_byte_offset(2) is
\* cluster_heap_offset * bytes_per_sector, consecutive clusters from 2 to
\* 0xFFFFFFEF lie bytes_per_cluster apart, and the 64-bit arithmetic gives
\* the exact value (nothing overflows).
C6_ClusterOffsets ==
    geo.op # "none" =>
        LET me == Held
            shiftB == me.bytes_per_sector_shift
            shiftC == me.sectors_per_cluster_shift
            exact == Shl(Add(me.cluster_heap_offset,
                             Shl(SubWrap(geo.clus, <<2>>), shiftC)), shiftB)
        IN  /\ NumEq(geo.off, exact)
            /\ geo.clus = U32(2) => NumEq(geo.off, Shl(me.cluster_heap_offset, shiftB))
            /\ NumEq(geo.next, Add(geo.off, Shl(<<1>>, shiftB + shiftC)))

\* the offset of the last cluster, 0xFFFFFFEF, on a volume of 32 MiB clusters
C6_Witness ==
    /\ geo.op # "none" /\ geo.clus = <<239, 255, 255, 255>>
    /\ Held.bytes_per_sector_shift + Held.sectors_per_cluster_shift = 25

---------------------------------------------------------------------------
(* The walker, one loop pass per step, over every small FAT.               *)

NumClusters == 2

MaxSteps == 3

\* the clusters whose FAT entry the byte source holds: 2 .. NumClusters + 1
FatClusters == {U32(n) : n \in 2..(NumClusters + 1)}

\* what a FAT entry or a start cluster may hold: free, the reserved 1, the
\* clusters of the FAT, one cluster past the end of the byte source, and
\* the values around the two limits of lines 10 and 43
FatValues ==
    {U32(n) : n \in 0..(NumClusters + 2)}
        \cup {<<239, 255, 255, 255>>, ClusterLimit, <<247, 255, 255, 255>>,
              EocMin, <<255, 255, 255, 255>>}

InitWalk ==
    /\ fat \in [FatClusters -> FatValues]
    /\ \E first \in FatValues, max \in 0..MaxSteps : wk = WalkStart(first, max)
    /\ bs = <<>> /\ boot = None /\ geo = None
    /\ NoHandle

WalkEnter ==
    /\ wk.pc = "entry"
    /\ wk' = WalkEntry(wk)
    /\ UNCHANGED <<fat, bpbVars, fsVars>>

WalkLoop ==
    /\ wk.pc = "loop"
    /\ wk' = WalkIter(fat, wk)
    /\ UNCHANGED <<fat, bpbVars, fsVars>>

NextWalk == WalkEnter \/ WalkLoop

\* the loop runs to its end: nothing else is scheduled beside it
SpecWalk == InitWalk /\ [][NextWalk]_vars /\ WF_vars(NextWalk)

NoRepeat(s) == \A i, j \in 1..Len(s) : s[i] = s[j] => i = j

\* C1: for every FAT content, start cluster and max, walk_chain ends, and
\* the sequence it has built holds at most max clusters, none of them twice.
C1_WalkChainBounded ==
    /\ [](Len(wk.out) <= wk.max /\ NoRepeat(wk.out))
    /\ <>(wk.pc = "done")

\* a walk through a two-cluster cycle has ended, cut by the seen set
C1_Witness ==
    /\ wk.pc = "done" /\ ~wk.err
    /\ Len(wk.out) = 2 /\ wk.max = 3
    /\ fat[wk.out[1]] = wk.out[2] /\ fat[wk.out[2]] = wk.out[1]

\* the FAT entry of cluster c ends the successor path at c
EndsPath(f, c, returned) ==
    \/ c \notin DOMAIN f
    \/ is_eoc(f[c]) \/ IsZero(f[c]) \/ f[c] = c
    \/ \E k \in 1..Len(returned) : returned[k] = f[c]
    \/ Lt(f[c], U32(2)) \/ Ge(f[c], ClusterLimit)

RECURSIVE SuccessorPrefix(_, _, _, _)
\* the prefix of c, f[c], f[f[c]], ... of at most n clusters, after acc
SuccessorPrefix(f, c, n, acc) ==
    IF n = 0 THEN acc
    ELSE IF EndsPath(f, c, Append(acc, c)) THEN Append(acc, c)
    ELSE SuccessorPrefix(f, f[c], n - 1, Append(acc, c))

\* C16 as stated: walk_chain(first, max) returns the prefix of the successor
\* path that ends at the first cluster whose FAT entry is end-of-chain, 0, the cluster
\* itself, a cluster already returned or outside [2, 0xFFFFFFF0), or after
\* max clusters; it returns the empty sequence when first < 2
C16_SuccessorPrefix ==
    (wk.pc = "done" /\ ~wk.err)
        => wk.out = IF Lt(wk.first, U32(2)) THEN <<>>
                    ELSE SuccessorPrefix(fat, wk.first, wk.max, <<>>)

\* C16: walk_chain(first, max) returns the prefix of the successor path
\* first, FAT[first], ... that ends at the first cluster whose FAT entry is
\* end-of-chain, 0, the cluster itself, a cluster already returned or
\* outside [2, 0xFFFFFFF0), or after max clusters; it returns the empty
\* sequence when first < 2 and when first >= 0xFFFFFFF0; a two-cluster
\* cycle is returned once, without error
C16_SuccessorPrefixInRange ==
    (wk.pc = "done" /\ ~wk.err)
        => wk.out = IF Lt(wk.first, U32(2)) \/ Ge(wk.first, ClusterLimit) THEN <<>>
                    ELSE SuccessorPrefix(fat, wk.first, wk.max, <<>>)

\* FAT[2] = 3 and FAT[3] = 2: the walk from 2 has returned [2, 3]
C16_Witness ==
    /\ wk.pc = "done" /\ ~wk.err /\ wk.first = U32(2) /\ wk.max = MaxSteps
    /\ fat[U32(2)] = U32(3) /\ fat[U32(3)] = U32(2)
    /\ wk.out = <<U32(2), U32(3)>>

---------------------------------------------------------------------------
(* Directory images: the records of a directory laid out in its clusters.  *)

\* the volume of the handle: 512-byte sectors, one sector per cluster, the
\* root directory at cluster 2
FsBoot == Decode(Layout([BaseFields EXCEPT !.spc = 0, !.root = U32(2)]))

RecordsPerCluster == Val(bytes_per_cluster(FsBoot)) \div 32

Zeros(n) == [k \in 1..n |-> 0]

Pad(b, n) == b \o Zeros(n - Len(b))

\* 0x00: the end of the directory
EndRec == Zeros(32)

\* 0x05: a File primary whose in-use bit is cleared (a deleted file)
DeletedRec == Pad(<<5>>, 32)

\* 0x85 with its secondary count (offset 1) and attributes (offset 4)
FileRec(sec, attr) == Pad(<<133, sec, 0, 0>> \o attr, 32)

\* 0xC0 with first_cluster (offset 20) and data_length (offset 24)
StreamRec(flags, fc, len) == <<192, flags>> \o Zeros(18) \o fc \o len

\* 0xC1 with up to 15 UTF-16 code units from offset 2
NameRec(units) ==
    Pad(<<193, 0>> \o [k \in 1..(2 * Len(units)) |->
                          IF k % 2 = 1 THEN units[(k + 1) \div 2] % 256
                          ELSE units[k \div 2] \div 256], 32)

ArchiveAttr == <<32, 0>>       \* 0x0020

DirectoryAttr == <<16, 0>>     \* 0x0010

\* the bytes of cluster number j (from 1) of a directory holding recs
ClusterBytes(recs, j) ==
    [b \in 1..(32 * RecordsPerCluster) |->
        recs[RecordsPerCluster * (j - 1) + ((b - 1) \div 32) + 1][((b - 1) % 32) + 1]]

\* recs laid out from cluster first in n consecutive clusters
DirClusters(first, n, recs) ==
    [c \in {U32(first + j - 1) : j \in 1..n} |->
        ClusterBytes(recs, Val(c) - first + 1)]

\* the FAT chain first -> first + 1 -> ... -> first + n - 1 -> EOC
ChainFat(first, n) ==
    [c \in {U32(first + j - 1) : j \in 1..n} |->
        IF Val(c) = first + n - 1 THEN MaxU32 ELSE U32(Val(c) + 1)]

Repeat(r, n) == [k \in 1..n |-> r]

idle == [at |-> "idle"]

\* the iteration orders of a HashMap<u64, _> that the handles are drawn from:
\* RandomState is seeded once, in HashMap::new(), and clear() keeps it
Hashers == {"ascending", "descending"}

\* ExFatFS::new on a readable boot sector: nothing indexed yet
Fresh ==
    /\ bpb = FsBoot
    /\ index_built = FALSE /\ inode_to_record = <<>>
    /\ stack = <<>> /\ pc = idle /\ last = None /\ visits = <<>>
    /\ wk = None /\ bs = <<>> /\ boot = None /\ geo = None

\* a fresh handle on a source whose every cluster is readable; the seed is
\* left to the specifications whose operations iterate the map
Opened ==
    /\ Fresh /\ bad = {}
    /\ hasher = "ascending"

---------------------------------------------------------------------------
(* The scans over a two-cluster root directory whose records are drawn     *)
(* from a palette.                                                         *)

MaxDirRecs == 3

DirPalette ==
    {EndRec, DeletedRec,
     FileRec(1, ArchiveAttr), FileRec(2, DirectoryAttr),
     StreamRec(1, U32(5), U64(10)), StreamRec(3, U32(6), U64(700)),
     NameRec(<<65>>)}

\* the drawn records straddle the two clusters, or end the directory
DirLeads == {RecordsPerCluster - 2, 2 * RecordsPerCluster - MaxDirRecs}

InitDir ==
    /\ \E lead \in DirLeads, v \in [1..MaxDirRecs -> DirPalette] :
          LET recs == Repeat(DeletedRec, lead) \o v
                         \o Repeat(EndRec, 2 * RecordsPerCluster - lead - MaxDirRecs)
          IN  disk = DirClusters(2, 2, recs)
    /\ fat = ChainFat(2, 2)
    /\ Opened

\* the operations that leave the handle as it is and return a value
opFrame == <<fat, wk, bpbVars, imageVars, index_built, inode_to_record, stack, pc, visits,
             hasher>>

DirArgs == DOMAIN disk

ListDir ==
    /\ pc = idle
    /\ \E d \in DirArgs : last' = [op |-> "list_dir", arg |-> d, failing |-> bad, res |-> list_dir(d)]
    /\ UNCHANGED opFrame

ListDirWithInodes ==
    /\ pc = idle
    /\ \E d \in DirArgs :
          last' = [op |-> "list_dir_with_inodes", arg |-> d,
                   failing |-> bad, res |-> list_dir_with_inodes(d)]
    /\ UNCHANGED opFrame

\* the spans the scans cut at the File records of ents (lines 93-95)
Spans(ents) ==
    IF ~ents.ok THEN {}
    ELSE {SubSeq(ents.val, i + 1, Min2(i + 1 + ents.val[i + 1].raw[1 + 1], Len(ents.val))) :
            i \in {j \in 0..(Len(ents.val) - 1) : kind(ents.val[j + 1]) = "File"}}

\* assemble_file on a span the scans cut
AssembleFile ==
    /\ pc = idle
    /\ \E d \in DirArgs :
          \E set \in Spans(read_dir_entries_from_chain(d)) :
              last' = [op |-> "assemble_file", arg |-> set, failing |-> bad, res |-> assemble_file(set)]
    /\ UNCHANGED opFrame

StreamsOf(set) == {k \in 1..Len(set) : kind(set[k]) = "StreamExt"}

\* C10: a File entry set, a 0x85 primary followed by its secondary_count
\* records, one of them its StreamExtension entry, assembles to a record
\* whose size and first_cluster are those of the StreamExtension entry and
\* whose attributes are those of the primary
C10_AssembledFromPrimaryAndStream ==
    (last.op = "assemble_file" /\ Cardinality(StreamsOf(last.arg)) = 1)
        => /\ last.res.some
           /\ \A k \in StreamsOf(last.arg) :
                 /\ last.res.val.size = Slice(last.arg[k].raw, 24, 8)
                 /\ last.res.val.first_cluster = Slice(last.arg[k].raw, 20, 4)
           /\ last.res.val.attributes = Slice(last.arg[1].raw, 4, 2)

\* a set whose primary is a directory with two secondaries, the first of
\* them a 0x85 record of a file: the assembled record is not a directory
C10_Witness ==
    /\ last.op = "assemble_file" /\ Len(last.arg) = 3
    /\ Cardinality(StreamsOf(last.arg)) = 1
    /\ kind(last.arg[2]) = "File"
    /\ Slice(last.arg[1].raw, 4, 2) = DirectoryAttr
    /\ last.res.some /\ last.res.val.attributes = ArchiveAttr

\* the span of the set that the File record at index i opens: the records
\* i .. i + secondary_count, cut at the end of the directory
SpanAt(ents, i) ==
    SubSeq(ents, i + 1, Min2(i + ents[i + 1].raw[1 + 1] + 1, Len(ents)))

RECURSIVE SetStarts(_, _)
\* the indices of the File records that open a set, from index i on: an End
\* record outside a span ends the directory, the records of a span open
\* no set, any other record is passed over
SetStarts(ents, i) ==
    IF i >= Len(ents) \/ kind(ents[i + 1]) = "End" THEN <<>>
    ELSE IF kind(ents[i + 1]) = "File"
    THEN <<i>> \o SetStarts(ents, i + Len(SpanAt(ents, i)))
    ELSE SetStarts(ents, i + 1)

\* the sets among starts that hold a StreamExtension entry
Complete(ents, starts) ==
    SelectSeq(starts, LAMBDA i : StreamsOf(SpanAt(ents, i)) # {})

\* the listing of ents is one record for each complete set, in the order of
\* the sets, each assembled from the span of its set
ListsTheSets(ents, recs) ==
    LET sets == Complete(ents, SetStarts(ents, 0))
    IN  /\ Len(recs) = Len(sets)
        /\ \A k \in 1..Len(sets) :
               /\ assemble_file(SpanAt(ents, sets[k])).some
               /\ recs[k] = assemble_file(SpanAt(ents, sets[k])).val

---------------------------------------------------------------------------
(* The handle on small volumes: the root directory in cluster 2, a         *)
(* directory in cluster 3, file data in clusters 4 and 5.                  *)

MaxStack == 2

\* the names "a", "A", "b", "B"
LowerA == <<97>>

UpperA == <<65>>

LowerB == <<98>>

UpperB == <<66>>

\* '/', the separator of line 193
Slash == 47

File(name, fc, size) ==
    Some([name |-> name, attr |-> ArchiveAttr, fc |-> U32(fc), size |-> U64(size)])

Dir(name, fc) ==
    Some([name |-> name, attr |-> DirectoryAttr, fc |-> U32(fc), size |-> U64(0)])

\* the three records of an entry set, or three deleted records in its place
EntrySet(e) ==
    IF e.some
    THEN <<FileRec(2, e.val.attr), StreamRec(1, e.val.fc, e.val.size), NameRec(e.val.name)>>
    ELSE Repeat(DeletedRec, 3)

RootChoices ==
    {File(LowerA, 4, 700), File(UpperA, 5, 3), File(LowerB, 4, 1024),
     Dir(LowerA, 3), Dir(UpperB, 2), Dir(LowerB, 3), Nothing}

SubChoices ==
    {File(LowerB, 4, 1024), File(UpperB, 5, 0),
     Dir(LowerB, 3), Dir(LowerA, 2)}

\* a one-cluster directory holding the entry sets of slots, then End records
DirOf(slots) ==
    LET recs == IF Len(slots) = 2 THEN EntrySet(slots[1]) \o EntrySet(slots[2])
                ELSE EntrySet(slots[1])
    IN  ClusterBytes(recs \o Repeat(EndRec, RecordsPerCluster - Len(recs)), 1)

\* a cluster of file data: the same byte throughout
DataOf(byte) == [k \in 1..(32 * RecordsPerCluster) |-> byte]

Init ==
    /\ \E r1 \in RootChoices, r2 \in RootChoices, s1 \in SubChoices :
          disk = (U32(2) :> DirOf(<<r1, r2>>)) @@ (U32(3) :> DirOf(<<s1>>))
                    @@ (U32(4) :> DataOf(68)) @@ (U32(5) :> DataOf(69))
    /\ fat = (U32(2) :> MaxU32) @@ (U32(3) :> MaxU32)
                @@ (U32(4) :> U32(5)) @@ (U32(5) :> MaxU32)
    /\ Opened

PathArgs ==
    {<<>>, <<Slash>>, LowerA, UpperA, LowerB, <<Slash>> \o LowerA,
     LowerA \o <<Slash>> \o LowerB, UpperA \o <<Slash>> \o LowerB,
     LowerA \o <<Slash, Slash>> \o UpperB \o <<Slash>>,
     UpperB \o <<Slash>> \o LowerA,
     LowerB \o <<Slash>> \o LowerB \o <<Slash>> \o LowerB,
     LowerA \o LowerB}

InoArgs == {ListIno(U32(2), 0), ListIno(U32(2), 1), ListIno(U32(2), 3), ListIno(U32(3), 0)}

\* the records a listing returned
Listed(r) == IF r.ok THEN {r.val[k] : k \in 1..Len(r.val)} ELSE {}

ReadFile ==
    /\ pc = idle
    /\ \E d \in DirArgs :
          \E fr \in Listed(list_dir(d)) :
              last' = [op |-> "read_file", arg |-> fr, failing |-> bad, res |-> read_file(fr)]
    /\ UNCHANGED opFrame

ReadPath ==
    /\ pc = idle
    /\ \E path \in PathArgs :
          last' = [op |-> "read_path", arg |-> path, failing |-> bad, res |-> read_path(path)]
    /\ UNCHANGED opFrame

\* what an index-backed operation does once its ensure_index has returned Ok
Answer(op, arg) ==
    CASE op = "get_inode" -> get_inode_indexed(inode_to_record, arg)
      [] op = "list_dir_inode" -> list_dir_inode_indexed(inode_to_record, arg)
      [] op = "read_inode" -> read_inode_indexed(inode_to_record, arg)
      [] op = "resolve_path_to_inode_num" -> resolve_path_indexed(inode_to_record, arg)

\* an ensure_index that clears and walks whether the index is built or not
IndexBackedRebuild(op, arg) ==
    /\ inode_to_record' = <<>>
    /\ stack' = <<bpb.root_dir_first_cluster>>
    /\ pc' = [at |-> "ensure_index", op |-> op, arg |-> arg]
    /\ visits' = <<>>
    /\ last' = None

\* an ensure_index that starts its walk on the map as it finds it
IndexBackedKeep(op, arg) ==
    IF index_built
    THEN /\ last' = [op |-> op, arg |-> arg, failing |-> bad, res |-> Answer(op, arg)]
         /\ UNCHANGED <<inode_to_record, stack, pc, visits>>
    ELSE /\ stack' = <<bpb.root_dir_first_cluster>>
         /\ pc' = [at |-> "ensure_index", op |-> op, arg |-> arg]
         /\ visits' = <<>>
         /\ last' = None
         /\ UNCHANGED inode_to_record

\* an index-backed operation up to the loop of ensure_index (lines 141-145),
\* and all of it when the index is built
IndexBacked(op, arg) ==
    IF index_built
    THEN /\ last' = [op |-> op, arg |-> arg, failing |-> bad, res |-> Answer(op, arg)]
         /\ UNCHANGED <<inode_to_record, stack, pc, visits>>
    ELSE /\ inode_to_record' = <<>>
         /\ stack' = <<bpb.root_dir_first_cluster>>
         /\ pc' = [at |-> "ensure_index", op |-> op, arg |-> arg]
         /\ visits' = <<>>
         /\ last' = None

GetInode ==
    /\ pc = idle
    /\ \E inode_num \in InoArgs : IndexBacked("get_inode", inode_num)
    /\ UNCHANGED <<fat, wk, bpbVars, imageVars, index_built, hasher>>

\* an ExInode the caller makes up for the root directory, which has no
\* record of its own
RootInode ==
    [i_num |-> U64(0), attributes |-> DirectoryAttr,
     first_cluster |-> bpb.root_dir_first_cluster, size |-> U64(0), name |-> <<>>]

\* the ExInode arguments: the one for the root, and the one the handle
\* returned last
InodeArgs ==
    {RootInode}
      \cup (IF last.op = "get_inode" /\ last.res.ok THEN {last.res.val} ELSE {})
      \cup (IF last.op = "resolve_path_to_inode_num" /\ last.res.ok
            THEN {last.res.val[2]} ELSE {})

ListDirInode ==
    /\ pc = idle
    /\ \E inode \in InodeArgs : IndexBacked("list_dir_inode", inode)
    /\ UNCHANGED <<fat, wk, bpbVars, imageVars, index_built, hasher>>

ReadInode ==
    /\ pc = idle
    /\ \E inode \in InodeArgs : IndexBacked("read_inode", inode)
    /\ UNCHANGED <<fat, wk, bpbVars, imageVars, index_built, hasher>>

ResolvePath ==
    /\ pc = idle
    /\ \E path \in PathArgs : IndexBacked("resolve_path_to_inode_num", path)
    /\ UNCHANGED <<fat, wk, bpbVars, imageVars, index_built, hasher>>

\* how often the running ensure_index has read directory d: 0, 1, or 2 for
\* twice and more
Visits(d) == IF d \in DOMAIN visits THEN visits[d] ELSE 0

\* one pass of `while let Some(dir_clus) = stack.pop()` (lines 146-171);
\* rest is the stack after the pop
IndexPass(dir_clus, rest, ents) ==
    IF ~ents.ok
    THEN /\ pc' = idle
         /\ stack' = <<>>
         /\ last' = [op |-> pc.op, arg |-> pc.arg, failing |-> bad, res |-> ents]
         /\ UNCHANGED <<inode_to_record, visits>>
    ELSE /\ inode_to_record' =
                IndexScan(dir_clus, ents.val, 0, [map |-> inode_to_record, stack |-> rest]).map
         /\ stack' =
                IndexScan(dir_clus, ents.val, 0, [map |-> inode_to_record, stack |-> rest]).stack
         /\ Len(stack') <= MaxStack
         /\ visits' = (dir_clus :> Min2(Visits(dir_clus) + 1, 2)) @@ visits
         /\ UNCHANGED <<pc, last>>

IndexStep ==
    /\ pc # idle /\ pc.at = "ensure_index"
    /\ stack # <<>>
    /\ IndexPass(stack[Len(stack)], SubSeq(stack, 1, Len(stack) - 1),
                 read_dir_entries_from_chain(stack[Len(stack)]))
    /\ UNCHANGED <<fat, wk, bpbVars, imageVars, index_built, hasher>>

\* the stack is empty: lines 172-173, then the rest of the caller
IndexDone ==
    /\ pc # idle /\ pc.at = "ensure_index"
    /\ stack = <<>>
    /\ index_built' = TRUE
    /\ pc' = idle
    /\ last' = [op |-> pc.op, arg |-> pc.arg, failing |-> bad, res |-> Answer(pc.op, pc.arg)]
    /\ UNCHANGED <<fat, wk, bpbVars, imageVars, inode_to_record, stack, visits, hasher>>

Next == ReadFile \/ ReadPath \/ GetInode \/ IndexStep \/ IndexDone

Spec == Init /\ [][Next]_vars

NextDir == ListDir \/ ListDirWithInodes \/ AssembleFile

\* the clusters whose reads fail while the source is faulty
BadClusters == {U32(3), U32(5)}

\* the source starts to fail, between two operations
Fault ==
    /\ pc = idle /\ bad = {}
    /\ bad' = BadClusters
    /\ UNCHANGED <<fat, wk, bpbVars, disk, bpb, handleVars, hasher>>

\* the source reads again
Repair ==
    /\ pc = idle /\ bad # {}
    /\ bad' = {}
    /\ UNCHANGED <<fat, wk, bpbVars, disk, bpb, handleVars, hasher>>

\* a 0x85 record that counts one secondary, an End record in its span, and
\* a deleted record: a set without a StreamExtension entry
HollowSet == <<FileRec(1, ArchiveAttr), EndRec, DeletedRec>>

\* the root directories of the volumes: two sets of three records each
HandleRoots ==
    {EntrySet(Dir(LowerA, 3)) \o EntrySet(File(LowerA, 4, 700)),
     EntrySet(File(LowerA, 4, 700)) \o EntrySet(File(UpperA, 5, 3)),
     Repeat(EndRec, 3) \o EntrySet(File(LowerA, 4, 700)),
     HollowSet \o EntrySet(File(LowerA, 4, 700)),
     EntrySet(Dir(LowerA, 3)) \o EntrySet(File(UpperB, 5, 3)),
     EntrySet(Dir(LowerA, 3)) \o EntrySet(File(UpperB, 7, 3))}

\* a one-cluster directory holding recs, then End records
DirOfRecs(recs) ==
    ClusterBytes(recs \o Repeat(EndRec, RecordsPerCluster - Len(recs)), 1)

\* the root in cluster 2; in cluster 3 a directory with the file "b" of
\* clusters 4 and 5; the FAT entry of cluster 5 is end-of-chain, cluster 4
\* (a cycle), cluster 5 (a self-loop) or 0 (free); there is no cluster 7
InitHandle ==
    /\ \E root \in HandleRoots :
          disk = (U32(2) :> DirOfRecs(root))
                    @@ (U32(3) :> DirOfRecs(EntrySet(File(LowerB, 4, 1024))))
                    @@ (U32(4) :> DataOf(68)) @@ (U32(5) :> DataOf(69))
    /\ \E next \in {MaxU32, U32(4), U32(5), U32(0)} :
          fat = (U32(2) :> MaxU32) @@ (U32(3) :> MaxU32)
                    @@ (U32(4) :> U32(5)) @@ (U32(5) :> next)
    /\ Fresh /\ bad = {}
    /\ hasher \in Hashers

NextHandle ==
    \/ ListDir \/ ListDirWithInodes \/ ReadFile \/ ReadPath
    \/ GetInode \/ ListDirInode \/ ReadInode \/ ResolvePath
    \/ IndexStep \/ IndexDone
    \/ Fault \/ Repair

SpecHandle == InitHandle /\ [][NextHandle]_vars

\* the start clusters of the file records: below 2, in the heap, reserved
FileStarts == {U32(0), U32(1), U32(4), U32(5), <<247, 255, 255, 255>>}

\* the sizes of the file records: none, less than a cluster, one cluster,
\* between one and two, two clusters, nearly four
FileSizes == {U64(0), U64(3), U64(512), U64(700), U64(1024), U64(2000)}

\* the FAT entries of the data clusters 4 and 5: the other cluster,
\* end-of-chain, free, the cluster itself, out of range, reserved
FatEntries == {U32(4), U32(5), MaxU32, U32(0), U32(1), <<247, 255, 255, 255>>}

\* a root with one file record of any start cluster and size over the data
\* clusters 4 and 5, whose FAT entries are any of FatEntries
InitRead ==
    /\ \E fc \in FileStarts, size \in FileSizes :
          disk = (U32(2) :> DirOfRecs(EntrySet(Some([name |-> LowerA, attr |-> ArchiveAttr,
                                                     fc |-> fc, size |-> size]))))
                    @@ (U32(4) :> DataOf(68)) @@ (U32(5) :> DataOf(69))
    /\ \E e4 \in FatEntries, e5 \in FatEntries :
          fat = (U32(2) :> MaxU32) @@ (U32(4) :> e4) @@ (U32(5) :> e5)
    /\ Opened

NextRead == ReadFile \/ Fault \/ Repair

SpecRead == InitRead /\ [][NextRead]_vars

SpecDir == InitDir /\ [][NextDir]_vars

\* C2: while ensure_index runs, it reads each directory at most once
C2_EachDirectoryOnce == \A d \in DOMAIN visits : visits[d] <= 1

C2_Witness ==
    /\ pc # idle /\ pc.at = "ensure_index"
    /\ Visits(U32(2)) = 2
    /\ stack = <<U32(2)>>

\* the whole FAT chain of a record, by the walker
ChainOf(fr) == walk_chain(fat, fr.first_cluster, 1000000)

RECURSIVE ConcatClusters(_, _)
\* the contents of the clusters of chain from its element j, in chain order
ConcatClusters(chain, j) ==
    IF j > Len(chain) THEN <<>> ELSE disk[chain[j]] \o ConcatClusters(chain, j + 1)

\* the chain ends in EOC, its clusters are there to read, and it holds at
\* least ceil(size / bytes_per_cluster) clusters
ValidFile(fr, chain) ==
    /\ chain.ok /\ chain.val # <<>>
    /\ \A k \in 1..Len(chain.val) : chain.val[k] \in DOMAIN disk \ bad
    /\ is_eoc(fat[chain.val[Len(chain.val)]])
    /\ Le(fr.size, U64(Len(chain.val) * Val(bytes_per_cluster(bpb))))

ReadsWholeFile(fr, chain, res) ==
    ValidFile(fr, chain)
        => /\ res.ok
           /\ U64(Len(res.val)) = fr.size
           /\ res.val = SubSeq(ConcatClusters(chain.val, 1), 1, Len(res.val))

\* C3: read_file on a valid file record of size S returns exactly S bytes,
\* the concatenation in chain order of the clusters of its chain, truncated
\* to S
C3_ReadFileWhole ==
    last.op = "read_file" => ReadsWholeFile(last.arg, ChainOf(last.arg), last.res)

C3_Witness ==
    /\ last.op = "read_file"
    /\ ValidFile(last.arg, ChainOf(last.arg))
    /\ last.arg.size = U64(700)
    /\ last.res.ok /\ Len(last.res.val) = 700
    /\ last.res.val[512] # last.res.val[513]

\* d in the high 32 bits and k in the low 32 bits
InoOf(d, k) == LE(k, 4) \o d

\* every record of the listing of d is the assembly of the set whose primary
\* is at some index k, and carries the number InoOf(d, k)
ListedByIndex(d, ents, listing) ==
    listing.ok =>
        \A j \in 1..Len(listing.val) :
            \E k \in 0..(Len(ents.val) - 1) :
                /\ kind(ents.val[k + 1]) = "File"
                /\ listing.val[j][1] = InoOf(d, k)
                /\ Some(listing.val[j][2]) =
                      assemble_file(SubSeq(ents.val, k + 1,
                          Min2(k + 1 + ents.val[k + 1].raw[2], Len(ents.val))))

\* an entry of the index is stored under InoOf(parent, index), and the
\* listing of parent gives the same record the same number
IndexedAsListed(ino, e, listing) ==
    /\ ino = InoOf(e[1], e[2])
    /\ listing.ok
    /\ \E j \in 1..Len(listing.val) : listing.val[j] = <<ino, e[3]>>

\* C7: the i_num of the entry set whose primary is record k of directory d
\* is (d << 32) | k, in list_dir_with_inodes(d) and in the index alike
C7_SameInodeNumbers ==
    /\ \A d \in DOMAIN disk :
          ListedByIndex(d, read_dir_entries_from_chain(d), list_dir_with_inodes(d))
    /\ \A ino \in DOMAIN inode_to_record :
          IndexedAsListed(ino, inode_to_record[ino],
                          list_dir_with_inodes(inode_to_record[ino][1]))

C7_Witness ==
    /\ index_built
    /\ \E ino \in DOMAIN inode_to_record :
          /\ inode_to_record[ino][1] = U32(2) /\ inode_to_record[ino][2] = 3
          /\ ino = <<3, 0, 0, 0, 2, 0, 0, 0>>
    /\ \E ino \in DOMAIN inode_to_record : inode_to_record[ino][1] = U32(3)

Upper(path) == [k \in DOMAIN path |-> to_ascii_uppercase(path[k])]

Lower(path) == [k \in DOMAIN path |-> to_ascii_lowercase(path[k])]

\* the bytes of a success, the kind of a failure
Outcome(r) == IF r.ok THEN <<"ok", r.val>> ELSE <<"err", r.kind>>

\* C8: read_path gives the same outcome for an ASCII path, for the path in
\* upper case and for the path in lower case
C8_PathCaseInsensitive ==
    last.op = "read_path"
        => /\ Outcome(read_path(Upper(last.arg))) = Outcome(last.res)
           /\ Outcome(read_path(Lower(last.arg))) = Outcome(last.res)

C8_Witness ==
    /\ last.op = "read_path"
    /\ last.res.ok /\ last.res.val # <<>>
    /\ Upper(last.arg) # last.arg /\ Lower(last.arg) # last.arg
    /\ Len(Parts(last.arg)) = 2

RECURSIVE Components(_, _)
\* the maximal runs of characters other than '/' in path, from position i
Components(path, i) ==
    IF i > Len(path) THEN <<>>
    ELSE IF path[i] = Slash THEN Components(path, i + 1)
    ELSE LET stops == {j \in i..Len(path) : path[j] = Slash}
             stop == IF stops = {} THEN Len(path) + 1
                     ELSE CHOOSE j \in stops : \A m \in stops : j <= m
         IN  <<SubSeq(path, i, stop - 1)>> \o Components(path, stop)

\* the first record in listing order whose name is comp up to ASCII case,
\* or 0
FirstNamed(entries, comp) ==
    LET named == {k \in 1..Len(entries) : Upper(entries[k].name) = Upper(comp)}
    IN  IF named = {} THEN 0 ELSE CHOOSE k \in named : \A j \in named : k <= j

RECURSIVE Matched(_, _, _)
\* the records the components of comps match from component j on, the
\* search starting in directory dir, up to the first one without a match
Matched(comps, j, dir) ==
    IF j > Len(comps) \/ ~list_dir(dir).ok THEN <<>>
    ELSE IF FirstNamed(list_dir(dir).val, comps[j]) = 0 THEN <<>>
    ELSE <<list_dir(dir).val[FirstNamed(list_dir(dir).val, comps[j])]>>
            \o Matched(comps, j + 1,
                   list_dir(dir).val[FirstNamed(list_dir(dir).val, comps[j])].first_cluster)

PathOutcome(comps, found, res) ==
    IF Len(found) < Len(comps)
    THEN res = Err("NotFound", comps[Len(found) + 1])
    ELSE IF BitOr(found[Len(comps)].attributes[1], 16, 8) = found[Len(comps)].attributes[1]
    THEN ~res.ok /\ res.kind = "NotAFile"
    ELSE res = read_file(found[Len(comps)])

\* C9: read_path descends from the root one non-empty component at a time
\* through the first ASCII-case-insensitive match of each listing; a
\* component without a match is NotFound naming it, a final match with
\* attribute bit 0x10 is NotAFile, any other final match is read_file of it
C9_ReadPathResolution ==
    (last.op = "read_path" /\ Components(last.arg, 1) # <<>>)
        => PathOutcome(Components(last.arg, 1),
                       Matched(Components(last.arg, 1), 1, bpb.root_dir_first_cluster),
                       last.res)

C9_Witness ==
    /\ last.op = "read_path" /\ last.arg = UpperA
    /\ last.res.ok /\ Len(last.res.val) = 700
    /\ Len(list_dir(bpb.root_dir_first_cluster).val) = 2
    /\ list_dir(bpb.root_dir_first_cluster).val[2].name = UpperA

\* the clusters a file of fr.size bytes takes: the quotient rounded up
CeilClusters(fr) ==
    (Val(fr.size) + Val(bytes_per_cluster(bpb)) - 1) \div Val(bytes_per_cluster(bpb))

\* C17: for every fr.size, also one that is not a multiple of
\* bytes_per_cluster, the max that read_file(fr) passes to walk_chain is
\* ceil(fr.size / bytes_per_cluster) + 4
C17_GuessIsCeilingPlusFour ==
    last.op = "read_file" => cluster_guess(last.arg) = CeilClusters(last.arg) + 4

\* the file of 700 bytes in clusters of 512 has been read: a max of 5
C17_Witness ==
    /\ last.op = "read_file" /\ last.arg.size = U64(700)
    /\ last.res.ok /\ Len(last.res.val) = 700
    /\ cluster_guess(last.arg) = 5 /\ CeilClusters(last.arg) = 2

\* the index of the first End record of ents, or their number
FirstEnd(ents) ==
    LET ends == {i \in 0..(Len(ents) - 1) : kind(ents[i + 1]) = "End"}
    IN  IF ends = {} THEN Len(ents) ELSE CHOOSE i \in ends : \A j \in ends : i <= j

\* the 0x85 records before the first End record
PrimariesBeforeEnd(ents) ==
    {i \in 0..(FirstEnd(ents) - 1) : kind(ents[i + 1]) = "File"}

\* fr is assembled from a set whose primary lies before the first End record
BeforeEnd(ents, fr) ==
    \E i \in PrimariesBeforeEnd(ents) : assemble_file(SpanAt(ents, i)) = Some(fr)

\* the result of a listing of directory d holds only such records
ListedBeforeEnd(ents, op, recs) ==
    \A k \in 1..Len(recs) :
        IF op = "list_dir" THEN BeforeEnd(ents, recs[k])
        ELSE /\ BeforeEnd(ents, recs[k][2])
             /\ \E i \in PrimariesBeforeEnd(ents) : recs[k][1] = ListIno(last.arg, i)

\* the entries ensure_index made for directory d are such records
IndexedBeforeEnd(d, ents) ==
    \A ino \in DOMAIN inode_to_record :
        inode_to_record[ino][1] = d
            => /\ inode_to_record[ino][2] \in PrimariesBeforeEnd(ents)
               /\ BeforeEnd(ents, inode_to_record[ino][3])

\* C11: an End record ends the enumeration of its directory: list_dir,
\* list_dir_with_inodes and ensure_index produce no record whose primary
\* lies after the first End record of the directory; a directory whose
\* first record is all zero lists as empty
C11_EndTerminates ==
    /\ (last.op \in {"list_dir", "list_dir_with_inodes"} /\ last.res.ok /\ bad = {})
          => ListedBeforeEnd(read_dir_entries_from_chain(last.arg).val,
                             last.op, last.res.val)
    /\ bad = {} =>
          \A d \in {inode_to_record[ino][1] : ino \in DOMAIN inode_to_record} :
              IndexedBeforeEnd(d, read_dir_entries_from_chain(d).val)

\* the root whose second record is an End record inside the span of the
\* first has been listed: one record, from the set at index 3
C11_Witness ==
    /\ last.op = "list_dir_with_inodes" /\ last.arg = bpb.root_dir_first_cluster
    /\ last.res.ok /\ Len(last.res.val) = 1 /\ bad = {}
    /\ last.res.val[1][1] = ListIno(last.arg, 3)
    /\ FirstEnd(read_dir_entries_from_chain(last.arg).val) = 1

\* C11, on the directories whose End records lie outside every span: the
\* listings and the index hold no record whose primary lies after the first
\* End record
C11_EndOutsideSpans ==
    \A d \in DOMAIN disk :
        LET ents == read_dir_entries_from_chain(d) IN
        (ents.ok /\ \A i \in PrimariesBeforeEnd(ents.val) :
                        i + Len(SpanAt(ents.val, i)) <= FirstEnd(ents.val))
            => /\ (last.op \in {"list_dir", "list_dir_with_inodes"}
                       /\ last.arg = d /\ last.res.ok)
                     => ListedBeforeEnd(ents.val, last.op, last.res.val)
               /\ IndexedBeforeEnd(d, ents.val)

\* a step of ensure_index: its entry (lines 141-145), a pass of its loop, or
\* its end
EnsureIndexStep == pc.at = "ensure_index" \/ pc'.at = "ensure_index"

\* C13: over every sequence of operations on a handle, the index is changed
\* by ensure_index only, and once index_built is set no operation changes the
\* index or index_built or walks the directories again
C13_IndexBuiltOnce ==
    [][/\ (inode_to_record' # inode_to_record \/ index_built' # index_built)
            => EnsureIndexStep
       /\ index_built
            => /\ index_built' /\ inode_to_record' = inode_to_record
               /\ ~EnsureIndexStep /\ visits' = visits]_vars

\* a file has been read through the inode that the built index returned
C13_Witness ==
    /\ index_built /\ pc = idle
    /\ last.op = "read_inode" /\ last.res.ok /\ last.arg.i_num \in DOMAIN inode_to_record
    /\ Cardinality(DOMAIN inode_to_record) = 3

\* a <= b in the lexicographic order of the bytes: a is a prefix of b, or
\* they differ first at a position where a is smaller
LexLe(a, b) ==
    \/ Len(a) <= Len(b) /\ SubSeq(b, 1, Len(a)) = a
    \/ \E k \in 1..Min2(Len(a), Len(b)) :
          /\ SubSeq(a, 1, k - 1) = SubSeq(b, 1, k - 1)
          /\ a[k] < b[k]

\* the index entries under the directory of first cluster d
ChildrenOf(d) == {ino \in DOMAIN inode_to_record : inode_to_record[ino][1] = d}

\* the CompatDirEntry of the index entry ino
EntryOf(ino) ==
    [inode |-> ino, rec_len |-> 32,
     file_type |-> IF (inode_to_record[ino][3].attributes[1] \div 16) % 2 = 1
                   THEN 2 ELSE 1,
     name |-> inode_to_record[ino][3].name]

\* res holds one CompatDirEntry for each index entry under d, in the order
\* of their names
OnePerEntrySorted(d, res) ==
    /\ Len(res) = Cardinality(ChildrenOf(d))
    /\ {res[k] : k \in 1..Len(res)} = {EntryOf(ino) : ino \in ChildrenOf(d)}
    /\ \A k \in 1..(Len(res) - 1) : LexLe(res[k].name, res[k + 1].name)

\* the result a handle of hasher h gives on the same index
ResultUnder(h, d) == sort_by_name(ChildrenFrom(inode_to_record,
                                               IterFrom(DOMAIN inode_to_record, h), 1, d))

\* C14: list_dir_inode of an inode with the directory attribute returns one
\* CompatDirEntry (inode = i_num, rec_len = 32, file_type 2 for a directory,
\* else 1) for each index entry whose parent is inode.first_cluster, sorted
\* by name in lexicographic byte order, and the result is the same on every
\* call for a fixed image
C14_ListDirInodeSortedAndFixed ==
    (last.op = "list_dir_inode" /\ last.res.ok)
        => /\ OnePerEntrySorted(last.arg.first_cluster, last.res.val)
           /\ \A h \in Hashers : last.res.val = ResultUnder(h, last.arg.first_cluster)

\* the root with a directory "a" at record 0 and a file "a" at record 3 has
\* been listed: the entry of the file comes first
C14_Witness ==
    /\ last.op = "list_dir_inode" /\ last.arg = RootInode /\ last.res.ok
    /\ Len(last.res.val) = 2
    /\ last.res.val[1].name = last.res.val[2].name
    /\ last.res.val[1].inode = ListIno(U32(2), 3) /\ last.res.val[1].file_type = 1
    /\ last.res.val[2].inode = ListIno(U32(2), 0) /\ last.res.val[2].file_type = 2

\* C14 without its last clause: one entry for each index entry under the
\* directory, sorted by name
C14_OnePerEntrySorted ==
    (last.op = "list_dir_inode" /\ last.res.ok)
        => OnePerEntrySorted(last.arg.first_cluster, last.res.val)

\* the result is the Io error
IoError(res) == ~res.ok /\ res.kind = "Io"

\* a read fails among the FAT entries of chain or its first n clusters
ReadFails(chain, n, failing) ==
    \/ ~chain.ok
    \/ \E k \in 1..Min2(n, Len(chain.val)) :
          chain.val[k] \notin DOMAIN disk \/ chain.val[k] \in failing

\* a directory is read to the end of its chain
DirReadFails(d, failing) ==
    ReadFails(walk_chain(fat, d, 1000000), 1000000, failing)

\* a file is read up to the cluster that holds its last byte, and its first
\* cluster in any case
FileReadFails(fr, failing) ==
    ReadFails(walk_chain(fat, fr.first_cluster, cluster_guess(fr)),
              IF CeilClusters(fr) = 0 THEN 1 ELSE CeilClusters(fr), failing)

RECURSIVE DescentFails(_, _, _, _)
\* a read fails on the way of read_path through comps from component j on,
\* the search starting in directory dir
DescentFails(comps, j, dir, failing) ==
    IF DirReadFails(dir, failing) THEN TRUE
    ELSE LET k == FirstNamed(list_dir(dir).val, comps[j])
         IN  IF k = 0 THEN FALSE
             ELSE IF j < Len(comps)
             THEN DescentFails(comps, j + 1, list_dir(dir).val[k].first_cluster, failing)
             ELSE /\ ~is_dir(list_dir(dir).val[k])
                  /\ FileReadFails(list_dir(dir).val[k], failing)

\* a read fails in what an index-backed operation does behind ensure_index
AnswerReadFails(op, arg, failing) ==
    /\ op = "read_inode" /\ arg.i_num \in DOMAIN inode_to_record
    /\ ~is_dir(inode_to_record[arg.i_num][3])
    /\ FileReadFails(inode_to_record[arg.i_num][3], failing)

SetsOf(d) ==
    LET ents == read_dir_entries_from_chain(d).val
        sets == Complete(ents, SetStarts(ents, 0))
    IN  {sets[k] : k \in 1..Len(sets)}

\* the record of the set of d whose primary is at index i
RecordAt(d, i) == assemble_file(SpanAt(read_dir_entries_from_chain(d).val, i)).val

\* the directories that the records of d lead to: those with the directory
\* attribute and a first_cluster of 2 or more
SubDirs(d) ==
    {RecordAt(d, i).first_cluster :
        i \in {j \in SetsOf(d) : /\ (RecordAt(d, j).attributes[1] \div 16) % 2 = 1
                                 /\ ~Lt(RecordAt(d, j).first_cluster, U32(2))}}

RECURSIVE Closure(_, _)
\* the directories reached from those of dirs in at most n steps
Closure(dirs, n) ==
    IF n = 0 THEN dirs
    ELSE Closure(dirs \cup UNION {SubDirs(d) : d \in dirs}, n - 1)

\* the directories reachable from the root
Reachable == Closure({bpb.root_dir_first_cluster}, Cardinality(DOMAIN disk))

\* no reachable directory leads back to itself
Acyclic ==
    \A d \in Reachable : d \notin Closure(SubDirs(d), Cardinality(DOMAIN disk))

\* one entry (parent, index, record) for each set of each reachable directory
ReachableSets ==
    LET keys == UNION {{<<d, i>> : i \in SetsOf(d)} : d \in Reachable}
    IN  [ino \in {InoOf(k[1], k[2]) : k \in keys} |->
            LET k == CHOOSE k \in keys : InoOf(k[1], k[2]) = ino
            IN  <<k[1], k[2], RecordAt(k[1], k[2])>>]

\* C18: after ensure_index has returned Ok on a volume whose directory graph
\* is acyclic, the index holds an entry for exactly the File entry sets of
\* the root and of every directory reachable from it through records with
\* the directory attribute and first_cluster >= 2
C18_IndexIsReachableSets ==
    (index_built /\ Acyclic) => inode_to_record = ReachableSets

\* the root holds a directory whose only set is a file: two entries
C18_Witness ==
    /\ index_built /\ Acyclic
    /\ Reachable = {U32(2), U32(3)}
    /\ DOMAIN inode_to_record = {InoOf(U32(2), 0), InoOf(U32(3), 0)}
    /\ ~is_dir(inode_to_record[InoOf(U32(3), 0)][3])

\* ensure_index is about to read a directory that fails to read
IndexReadFails ==
    /\ pc.at = "ensure_index" /\ stack # <<>>
    /\ DirReadFails(stack[Len(stack)], bad)

\* an index-backed operation starts on a handle whose index is not built
IndexStarts == pc = idle /\ pc'.at = "ensure_index"

\* C19: when ensure_index fails with an I/O error partway through its
\* traversal, index_built stays false and the operation returns the error,
\* which carries no entry; the next index-backed operation clears the
\* partial index and rebuilds it from the root; after a later success the
\* index is the one a fresh handle builds
C19_FailedIndexIsRebuilt ==
    /\ [][IndexReadFails
             => /\ ~index_built' /\ pc' = idle
                /\ IoError(last'.res) /\ last'.op = pc.op]_vars
    /\ [][IndexStarts
             => /\ inode_to_record' = <<>>
                /\ stack' = <<bpb.root_dir_first_cluster>>]_vars
    /\ []((pc = idle /\ ~index_built /\ last.op # "none"
              /\ last.op \notin {"list_dir", "list_dir_with_inodes", "read_file", "read_path"})
            => IoError(last.res))
    /\ []((index_built /\ bad = {}) => inode_to_record = ReachableSets)

\* ensure_index has failed on the directory in cluster 3 after it inserted
\* the two sets of the root: the operation returned the error
C19_Witness ==
    /\ pc = idle /\ ~index_built
    /\ last.op = "resolve_path_to_inode_num" /\ IoError(last.res)
    /\ DOMAIN inode_to_record = {InoOf(U32(2), 0), InoOf(U32(2), 3)}
    /\ bad = BadClusters

\* the name, first_cluster, size and attributes of a record or an ExInode
RecordOf(r) ==
    [name |-> r.name, first_cluster |-> r.first_cluster, size |-> r.size,
     attributes |-> r.attributes]

\* res succeeds exactly when every component of comps has its match in
\* found, the records along the descent of read_path, and then it returns the
\* record of the last component
AgreesWithDescent(comps, found, res) ==
    /\ res.ok <=> (comps # <<>> /\ Len(found) = Len(comps))
    /\ res.ok => RecordOf(res.val[2]) = RecordOf(found[Len(comps)])

\* C20: resolve_path_to_inode_num(p) succeeds exactly when every component
\* of p has a case-insensitive match along the descent of read_path, and it
\* returns the record read_path(p) selects, also when a directory holds
\* several names that are equal under ASCII case folding; the result does
\* not vary between calls
C20_ResolveAgreesWithReadPath ==
    (index_built /\ bad = {} /\ last.op = "resolve_path_to_inode_num")
        => /\ AgreesWithDescent(Components(last.arg, 1),
                                Matched(Components(last.arg, 1), 1,
                                        bpb.root_dir_first_cluster),
                                last.res)
           /\ \A h \in Hashers :
                 last.res = ResolveOver(inode_to_record,
                                        IterFrom(DOMAIN inode_to_record, h), last.arg)

\* in the root, a directory "a" before a file "a": the path "a" has resolved
\* to the file, while the first match in the listing is the directory
C20_Witness ==
    /\ index_built /\ bad = {} /\ last.op = "resolve_path_to_inode_num"
    /\ last.arg = LowerA /\ last.res.ok
    /\ last.res.val[1] = InoOf(U32(2), 3) /\ ~is_dir(last.res.val[2])
    /\ is_dir(list_dir(bpb.root_dir_first_cluster).val[1])
    /\ list_dir(bpb.root_dir_first_cluster).val[1].name = LowerA

\* no directory that is indexed holds two names equal under case folding
DistinctNames ==
    \A i, j \in DOMAIN inode_to_record :
        (/\ inode_to_record[i][1] = inode_to_record[j][1]
         /\ Upper(inode_to_record[i][3].name) = Upper(inode_to_record[j][3].name))
            => i = j

\* C20 on the volumes whose directories hold no two such names
C20_AgreesOnDistinctNames ==
    (index_built /\ bad = {} /\ last.op = "resolve_path_to_inode_num" /\ DistinctNames)
        => AgreesWithDescent(Components(last.arg, 1),
                             Matched(Components(last.arg, 1), 1, bpb.root_dir_first_cluster),
                             last.res)

\* what the FAT walk of read_file yields for fr
WalkOf(fr) == walk_chain(fat, fr.first_cluster, cluster_guess(fr))

\* the walk yields fewer clusters than a file of fr.size bytes takes
ShortChain(fr, chain) == chain.ok /\ Len(chain.val) < CeilClusters(fr)

=============================================================================
